---- MODULE Spec2Model ----
(***************************************************************************)
(* Host-side model of imaqbindings: class Board and class Buffer of        *)
(* bindings.py, the ctypes_sig decorator and check_error, and the          *)
(* enumerations they use.  The NI-IMAQ driver (imaq.dll) is the            *)
(* environment: every driver call returns a status chosen                  *)
(* nondeterministically (0 = success, 1 = any non-zero status) and, on     *)
(* success, has the effect the wrapper's docstring gives it.               *)
(***************************************************************************)
EXTENDS Integers, Sequences, FiniteSets, TLC

VARIABLES board, buf, drv, caller, lastOp, nclose, nbclose

vars == <<board, buf, drv, caller, lastOp, nclose, nbclose>>

--------------------------------------------------------------------------
(* Bounds of the model *)

MaxElems == 2

MaxDim == 2

MaxBpp == 5

MaxCloses == 2

--------------------------------------------------------------------------
(* Values *)

\* Python's None in a handle field (self._ifid = None); handles are uint32.
None == -1

\* Status codes a driver call returns: 0 success, 1 stands for any non-zero code.
Statuses == {0, 1}

\* Handles the driver hands out, in the order it opens things (all non-zero).
IfHandle == 1

SessHandle == 2

ListHandle == 3

\* Address of the memory region imgCreateBuffer returns; 0 is the NULL pointer.
BufAddr == 4

NullPtr == 0

Handles == {IfHandle, SessHandle}

--------------------------------------------------------------------------
(* enumerations.py *)

BASE == 1073086464

IMG_ATTR_GETSERIAL == BASE + 192

IMG_ATTR_ACQWINDOW_HEIGHT == BASE + 107

DeviceInformation == {IMG_ATTR_GETSERIAL}

SessionInformation == {IMG_ATTR_ACQWINDOW_HEIGHT}

AttrIds == DeviceInformation \cup SessionInformation

AttrValues == {0, 1}

IMG_BUFF_ADDRESS == BASE + 126

IMG_BUFF_COMMAND == BASE + 127

IMG_BUFF_SIZE == BASE + 130

BufferElement == {IMG_BUFF_ADDRESS, IMG_BUFF_COMMAND, IMG_BUFF_SIZE}

IMG_CMD_NEXT == 1

IMG_CMD_LOOP == 2

IMG_CMD_PASS == 4

IMG_CMD_STOP == 8

BufferCommand == {IMG_CMD_NEXT, IMG_CMD_LOOP, IMG_CMD_PASS, IMG_CMD_STOP}

IMG_HOST_FRAME == 0

--------------------------------------------------------------------------
(* ctypes_sig: the driver function a decorated method configures *)

\* Words of the method names, as func.__name__.split('_') yields them.
Acronyms == {"sdk", "id", "io", "cpld", "fpga", "led"}

\* str.capitalize() / str.upper() on the words that occur in method names.
Capitalize(x) ==
    CASE x = "" -> ""
      [] x = "interface" -> "Interface"
      [] x = "open" -> "Open"
      [] x = "session" -> "Session"
      [] x = "get" -> "Get"
      [] x = "set" -> "Set"
      [] x = "attribute" -> "Attribute"
      [] x = "create" -> "Create"
      [] x = "buf" -> "Buf"
      [] x = "list" -> "List"
      [] x = "buffer" -> "Buffer"
      [] x = "element" -> "Element"
      [] x = "configure" -> "Configure"
      [] x = "acquire" -> "Acquire"
      [] x = "serial" -> "Serial"
      [] x = "flush" -> "Flush"
      [] x = "write" -> "Write"
      [] x = "read" -> "Read"
      [] x = "bytes" -> "Bytes"
      [] x = "close" -> "Close"
      [] x = "dispose" -> "Dispose"

Upper(x) ==
    CASE x = "sdk" -> "SDK"
      [] x = "id" -> "ID"
      [] x = "io" -> "IO"
      [] x = "cpld" -> "CPLD"
      [] x = "fpga" -> "FPGA"
      [] x = "led" -> "LED"

RECURSIVE JoinWords(_)
JoinWords(ws) ==
    IF ws = <<>> THEN ""
    ELSE (IF Head(ws) \in Acronyms THEN Upper(Head(ws)) ELSE Capitalize(Head(ws)))
         \o JoinWords(Tail(ws))

FuncName(ws) == "img" \o JoinWords(ws)

\* The methods that carry @ctypes_sig, by the words of their names.
Decorated ==
    { <<"", "interface", "open">>,
      <<"", "session", "open">>,
      <<"get", "attribute">>,
      <<"set", "attribute">>,
      <<"create", "buf", "list">>,
      <<"get", "buffer", "element">>,
      <<"set", "buffer", "element">>,
      <<"session", "configure">>,
      <<"session", "acquire">>,
      <<"session", "serial", "flush">>,
      <<"session", "serial", "write">>,
      <<"", "close">>,
      <<"", "create", "buffer">>,
      <<"", "dispose", "buffer">> }

\* Driver functions whose argtypes and errcheck the decorator has set.
Configured == { FuncName(m) : m \in Decorated }

\* check_error raises exactly on a non-zero result.
check_error(result) == result # 0

--------------------------------------------------------------------------
(* One foreign call *)

Call(fn, args, st) == [fn |-> fn, args |-> args, st |-> st]

\* A handle argument as ctypes passes it.  With argtypes set, None cannot be
\* converted to c_uint32 (ArgumentError, no call); without argtypes None is
\* passed as NULL.
Marshal(h) == IF h = None THEN 0 ELSE h

RECURSIVE MarshalAll(_)
MarshalAll(hs) ==
    IF hs = <<>> THEN <<>> ELSE <<Marshal(Head(hs))>> \o MarshalAll(Tail(hs))

HasNone(hs) == \E i \in 1..Len(hs) : hs[i] = None

\* imaq.<fn>(hs..., rest...) returning status st: the call made (if any) and
\* the error it ends with ("ok" when the call returns to the method).
Invoke(fn, hs, rest, st) ==
    IF fn \in Configured /\ HasNone(hs)
    THEN [calls |-> <<>>, err |-> "ArgumentError"]
    ELSE [calls |-> <<Call(fn, MarshalAll(hs) \o rest, st)>>,
          err |-> IF fn \in Configured /\ check_error(st) THEN "Exception" ELSE "ok"]

\* Truth value of a handle field: None and c_uint32(0) are false.
Truthy(h) == h # None /\ h # 0

--------------------------------------------------------------------------
(* The driver (environment) *)

NoList == <<>>

EmptyElem == [addr |-> 0, size |-> 0]

DrvInit ==
    [ open |-> {},
      ifid |-> None,
      sid |-> None,
      closeCalls |-> [h \in Handles |-> 0],
      okCloses |-> [h \in Handles |-> 0],
      attrs |-> [a \in AttrIds |-> 0],
      list |-> NoList,
      region |-> FALSE,
      disposeCalls |-> 0 ]

\* Effect of one call on the driver.  A call that returns a non-zero status
\* changes nothing but the call counters.
Drive(d, c) ==
    CASE c.fn = "imgInterfaceOpen" ->
           IF c.st = 0 THEN [d EXCEPT !.open = @ \cup {c.args[1]}, !.ifid = c.args[1]] ELSE d
      [] c.fn = "imgSessionOpen" ->
           IF c.st = 0 THEN [d EXCEPT !.open = @ \cup {c.args[2]}, !.sid = c.args[2]] ELSE d
      [] c.fn = "imgClose" ->
           IF c.st = 0
           THEN [d EXCEPT !.open = @ \ {c.args[1]},
                          !.closeCalls[c.args[1]] = @ + 1,
                          !.okCloses[c.args[1]] = @ + 1]
           ELSE [d EXCEPT !.closeCalls[c.args[1]] = @ + 1]
      [] c.fn = "imgSetAttribute" ->
           IF c.st = 0 THEN [d EXCEPT !.attrs[c.args[2]] = c.args[3]] ELSE d
      [] c.fn = "imgCreateBufList" ->
           IF c.st = 0 THEN [d EXCEPT !.list = [i \in 1..c.args[1] |-> EmptyElem]] ELSE d
      [] c.fn = "imgSetBufferElement" ->
           IF c.st = 0 /\ c.args[2] + 1 \in DOMAIN d.list
           THEN (CASE c.args[3] = IMG_BUFF_ADDRESS ->
                        [d EXCEPT !.list[c.args[2] + 1].addr = c.args[4]]
                   [] c.args[3] = IMG_BUFF_SIZE ->
                        [d EXCEPT !.list[c.args[2] + 1].size = c.args[4]]
                   [] OTHER -> d)
           ELSE d
      [] c.fn = "imgCreateBuffer" ->
           IF c.st = 0 THEN [d EXCEPT !.region = TRUE] ELSE d
      [] c.fn = "imgDisposeBuffer" ->
           IF c.args[1] = NullPtr THEN d
           ELSE IF c.st = 0
                THEN [d EXCEPT !.region = FALSE, !.disposeCalls = @ + 1]
                ELSE [d EXCEPT !.disposeCalls = @ + 1]
      [] OTHER -> d

RECURSIVE DriveAll(_, _)
DriveAll(d, cs) == IF cs = <<>> THEN d ELSE DriveAll(Drive(d, Head(cs)), Tail(cs))

--------------------------------------------------------------------------
(* Records of the model *)

Op(op, args, cmd, run, ret) ==
    [op |-> op, args |-> args, cmd |-> cmd, result |-> run.result,
     calls |-> run.calls, ret |-> ret]

NoOp == [op |-> "none", args |-> <<>>, cmd |-> <<>>, result |-> "ok",
         calls |-> <<>>, ret |-> <<>>]

BoardNone == [phase |-> "none", ifid |-> None, sid |-> None, bid |-> None]

BufNone == [phase |-> "none", sid |-> None, ptr |-> NullPtr, size |-> 0,
            dtype |-> "none", shape |-> <<>>]

Init ==
    /\ board = BoardNone
    /\ buf = BufNone
    /\ drv = DrvInit
    /\ caller = [bid |-> None]
    /\ lastOp = NoOp
    /\ nclose = 0
    /\ nbclose = 0

--------------------------------------------------------------------------
(* class Board: construction and teardown *)

\* Board.__init__: interface open, then session open; nothing is caught.
InitRun(s1, s2) ==
    LET a == Invoke("imgInterfaceOpen", <<>>, <<IfHandle>>, s1) IN
    IF a.err # "ok"
    THEN [ifid |-> None, sid |-> None, calls |-> a.calls, result |-> a.err]
    ELSE LET b == Invoke("imgSessionOpen", <<IfHandle>>, <<SessHandle>>, s2) IN
         IF b.err # "ok"
         THEN [ifid |-> IfHandle, sid |-> None,
               calls |-> a.calls \o b.calls, result |-> b.err]
         ELSE [ifid |-> IfHandle, sid |-> SessHandle,
               calls |-> a.calls \o b.calls, result |-> "ok"]

\* Faulty variant of CloseRun: the handle fields are not cleared after the driver close.
CloseRunKeepsHandles(sidv, ifidv, fr, s1, s2) ==
    LET a == IF Truthy(sidv) THEN Invoke("imgClose", <<sidv>>, <<fr>>, s1)
             ELSE [calls |-> <<>>, err |-> "ok"] IN
    IF a.err # "ok"
    THEN [sid |-> sidv, ifid |-> ifidv, calls |-> a.calls, result |-> a.err]
    ELSE LET b == IF Truthy(ifidv) THEN Invoke("imgClose", <<ifidv>>, <<fr>>, s2)
                  ELSE [calls |-> <<>>, err |-> "ok"] IN
         [sid |-> sidv, ifid |-> ifidv, calls |-> a.calls \o b.calls, result |-> b.err]

\* Faulty variant of CloseRun: the interface handle is closed before the session handle.
CloseRunInterfaceFirst(sidv, ifidv, fr, s1, s2) ==
    LET a == IF Truthy(ifidv) THEN Invoke("imgClose", <<ifidv>>, <<fr>>, s1)
             ELSE [calls |-> <<>>, err |-> "ok"] IN
    IF a.err # "ok"
    THEN [sid |-> sidv, ifid |-> ifidv, calls |-> a.calls, result |-> a.err]
    ELSE LET ifid2 == IF Truthy(ifidv) THEN None ELSE ifidv
             b == IF Truthy(sidv) THEN Invoke("imgClose", <<sidv>>, <<fr>>, s2)
                  ELSE [calls |-> <<>>, err |-> "ok"] IN
         IF b.err # "ok"
         THEN [sid |-> sidv, ifid |-> ifid2, calls |-> a.calls \o b.calls, result |-> b.err]
         ELSE [sid |-> IF Truthy(sidv) THEN None ELSE sidv, ifid |-> ifid2,
               calls |-> a.calls \o b.calls, result |-> "ok"]

\* Faulty variant of CloseRun: a failed session close is not raised; the
\* interface is closed and both fields are cleared all the same.
CloseRunIgnoresSessionFailure(sidv, ifidv, fr, s1, s2) ==
    LET a == IF Truthy(sidv) THEN Invoke("imgClose", <<sidv>>, <<fr>>, s1)
             ELSE [calls |-> <<>>, err |-> "ok"]
        b == IF Truthy(ifidv) THEN Invoke("imgClose", <<ifidv>>, <<fr>>, s2)
             ELSE [calls |-> <<>>, err |-> "ok"] IN
    [sid |-> IF Truthy(sidv) THEN None ELSE sidv,
     ifid |-> IF Truthy(ifidv) THEN None ELSE ifidv,
     calls |-> a.calls \o b.calls, result |-> b.err]

\* Board.close: session handle first, then interface handle; a handle field
\* is cleared only after its driver close returned without raising.
CloseRun(sidv, ifidv, fr, s1, s2) ==
    LET a == IF Truthy(sidv) THEN Invoke("imgClose", <<sidv>>, <<fr>>, s1)
             ELSE [calls |-> <<>>, err |-> "ok"] IN
    IF a.err # "ok"
    THEN [sid |-> sidv, ifid |-> ifidv, calls |-> a.calls, result |-> a.err]
    ELSE LET sid2 == IF Truthy(sidv) THEN None ELSE sidv
             b == IF Truthy(ifidv) THEN Invoke("imgClose", <<ifidv>>, <<fr>>, s2)
                  ELSE [calls |-> <<>>, err |-> "ok"] IN
         IF b.err # "ok"
         THEN [sid |-> sid2, ifid |-> ifidv, calls |-> a.calls \o b.calls, result |-> b.err]
         ELSE [sid |-> sid2, ifid |-> IF Truthy(ifidv) THEN None ELSE ifidv,
               calls |-> a.calls \o b.calls, result |-> "ok"]

\* board = Board(): on an exception the object stays alive (the traceback
\* holds the frame that holds self) until the runtime finalizes it.
BoardInit ==
    /\ board.phase = "none"
    /\ \E s1, s2 \in Statuses :
         LET r == InitRun(s1, s2) IN
         /\ board' = [phase |-> IF r.result = "ok" THEN "live" ELSE "failed",
                      ifid |-> r.ifid, sid |-> r.sid, bid |-> None]
         /\ drv' = DriveAll(drv, r.calls)
         /\ lastOp' = Op("Board", <<>>, <<>>, r, <<>>)
    /\ UNCHANGED <<buf, caller, nclose, nbclose>>

\* board.close(free_resources)
BoardClose ==
    /\ board.phase = "live"
    /\ nclose < MaxCloses
    /\ \E fr \in {0, 1}, s1, s2 \in Statuses :
         LET r == CloseRun(board.sid, board.ifid, fr, s1, s2) IN
         /\ board' = [board EXCEPT !.sid = r.sid, !.ifid = r.ifid]
         /\ drv' = DriveAll(drv, r.calls)
         /\ lastOp' = Op("close", <<fr>>, <<>>, r, <<>>)
    /\ nclose' = nclose + 1
    /\ UNCHANGED <<buf, caller, nbclose>>

\* Board.__del__, run by the runtime once the object is unreachable: calls
\* close(); an exception raised in a finalizer is not propagated.
BoardDel ==
    /\ board.phase \in {"live", "failed"}
    /\ \E s1, s2 \in Statuses :
         LET r == CloseRun(board.sid, board.ifid, 1, s1, s2) IN
         /\ board' = [board EXCEPT !.phase = "dead", !.sid = r.sid, !.ifid = r.ifid]
         /\ drv' = DriveAll(drv, r.calls)
         /\ lastOp' = Op("__del__", <<>>, <<>>, r, <<>>)
    /\ UNCHANGED <<buf, caller, nclose, nbclose>>

--------------------------------------------------------------------------
(* class Board: attributes *)

Run(inv) == [calls |-> inv.calls, result |-> inv.err]

\* Board.get_attribute
GetAttributeRun(sidv, attr, s) == Run(Invoke("imgGetAttribute", <<sidv>>, <<attr>>, s))

\* Board.set_attribute: the id and value go to the driver as they are.
SetAttributeRun(sidv, attr, value, s) ==
    Run(Invoke("imgSetAttribute", <<sidv>>, <<attr, value>>, s))

GetAttribute ==
    /\ board.phase = "live"
    /\ \E attr \in AttrIds, s \in Statuses :
         LET r == GetAttributeRun(board.sid, attr, s) IN
         /\ drv' = DriveAll(drv, r.calls)
         /\ lastOp' = Op("get_attribute", <<attr>>, <<>>, r,
                         IF r.result = "ok" THEN <<drv.attrs[attr]>> ELSE <<>>)
    /\ UNCHANGED <<board, buf, caller, nclose, nbclose>>

SetAttribute ==
    /\ board.phase = "live"
    /\ \E attr \in AttrIds, value \in AttrValues, s \in Statuses :
         LET r == SetAttributeRun(board.sid, attr, value, s) IN
         /\ drv' = DriveAll(drv, r.calls)
         /\ lastOp' = Op("set_attribute", <<attr, value, drv.attrs[attr]>>, <<>>, r, <<>>)
    /\ UNCHANGED <<board, buf, caller, nclose, nbclose>>

--------------------------------------------------------------------------
(* class Board: buffer list *)

ElemValues == {0, 1}

\* Board.create_buf_list: the handle is returned to the caller; no field of
\* the Board is assigned.
CreateBufListRun(n, s) == Run(Invoke("imgCreateBufList", <<>>, <<n, ListHandle>>, s))

\* Board.get_buffer_element
GetBufferElementRun(bidv, element, item, s) ==
    Run(Invoke("imgGetBufferElement", <<bidv>>, <<element, item>>, s))

\* Board.set_buffer_element
SetBufferElementRun(bidv, element, item, value, s) ==
    Run(Invoke("imgSetBufferElement", <<bidv>>, <<element, item, value>>, s))

\* str.lower() on the characters of the command alphabet.
LowerChars == <<"n", "e", "x", "t", "l", "o", "p", "a", "s", "c", "i", "u">>

UpperChars == <<"N", "E", "X", "T", "L", "O", "P", "A", "S", "C", "I", "U">>

LowerChar(c) ==
    IF \E i \in 1..Len(UpperChars) : UpperChars[i] = c
    THEN LowerChars[CHOOSE i \in 1..Len(UpperChars) : UpperChars[i] = c]
    ELSE c

Lower(str) == [i \in 1..Len(str) |-> LowerChar(str[i])]

\* Faulty variant of ParseCommand: the command is compared without lower().
ParseCommandCaseSensitive(command) ==
    CASE command = <<"n", "e", "x", "t">> -> IMG_CMD_NEXT
      [] command = <<"l", "o", "o", "p">> -> IMG_CMD_LOOP
      [] command = <<"p", "a", "s", "s">> -> IMG_CMD_PASS
      [] command = <<"s", "t", "o", "p">> -> IMG_CMD_STOP
      [] OTHER -> None

\* The if/elif chain of set_buffer_element_command; None when it raises.
ParseCommand(command) ==
    LET c == Lower(command) IN
    CASE c = <<"n", "e", "x", "t">> -> IMG_CMD_NEXT
      [] c = <<"l", "o", "o", "p">> -> IMG_CMD_LOOP
      [] c = <<"p", "a", "s", "s">> -> IMG_CMD_PASS
      [] c = <<"s", "t", "o", "p">> -> IMG_CMD_STOP
      [] OTHER -> None

\* Board.set_buffer_element_command
SetBufferElementCommandRun(bidv, element, command, s) ==
    LET buf_cmd == ParseCommand(command) IN
    IF buf_cmd = None
    THEN [calls |-> <<>>, result |-> "TypeError"]
    ELSE SetBufferElementRun(bidv, element, IMG_BUFF_COMMAND, buf_cmd, s)

\* Board.session_configure
SessionConfigureRun(sidv, bidv, s) ==
    Run(Invoke("imgSessionConfigure", <<sidv, bidv>>, <<>>, s))

\* Board.session_acquire
SessionAcquireRun(sidv, async_flag, s) ==
    Run(Invoke("imgSessionAcquire", <<sidv>>, <<async_flag>>, s))

Elements == 0..(MaxElems - 1)

\* Command strings tried: every upper/lower-case spelling of the four
\* commands, and strings that are none of them.
CommandWords ==
    { <<"n", "e", "x", "t">>, <<"l", "o", "o", "p">>,
      <<"p", "a", "s", "s">>, <<"s", "t", "o", "p">> }

\* str.upper() on a lower-case character of the command alphabet.
UpperChar(c) ==
    IF \E i \in 1..Len(LowerChars) : LowerChars[i] = c
    THEN UpperChars[CHOOSE i \in 1..Len(LowerChars) : LowerChars[i] = c]
    ELSE c

\* The spellings of word w: each character in upper or in lower case.
Spellings(w) ==
    { [i \in 1..Len(w) |-> IF m[i] = 1 THEN UpperChar(w[i]) ELSE w[i]] :
        m \in [1..Len(w) -> {0, 1}] }

OtherCommands ==
    { <<>>, <<"n", "e", "x">>, <<"n", "e", "x", "t", "s">>, <<" ", "n", "e", "x", "t">>,
      <<"S", "T", "O", "P", " ">>, <<"l", "o", "o", "t">>,
      <<"c", "o", "n", "t", "i", "n", "u", "e">> }

Commands == UNION { Spellings(w) : w \in CommandWords } \cup OtherCommands

SomeCommands ==
    { <<"n", "e", "x", "t">>, <<"S", "t", "O", "p">>, <<"c", "o", "n", "t", "i", "n", "u", "e">> }

CreateBufList ==
    /\ board.phase = "live"
    /\ drv.list = NoList
    /\ \E n \in 1..MaxElems, s \in Statuses :
         LET r == CreateBufListRun(n, s) IN
         /\ drv' = DriveAll(drv, r.calls)
         /\ caller' = IF r.result = "ok" THEN [bid |-> ListHandle] ELSE caller
         /\ lastOp' = Op("create_buf_list", <<n>>, <<>>, r,
                         IF r.result = "ok" THEN <<ListHandle>> ELSE <<>>)
    /\ UNCHANGED <<board, buf, nclose, nbclose>>

GetBufferElement ==
    /\ board.phase = "live"
    /\ \E element \in Elements, item \in BufferElement, s \in Statuses :
         LET r == GetBufferElementRun(board.bid, element, item, s) IN
         /\ drv' = DriveAll(drv, r.calls)
         /\ lastOp' = Op("get_buffer_element", <<element, item>>, <<>>, r, <<>>)
    /\ UNCHANGED <<board, buf, caller, nclose, nbclose>>

SetBufferElement ==
    /\ board.phase = "live"
    /\ \E element \in Elements, item \in BufferElement, value \in ElemValues, s \in Statuses :
         LET r == SetBufferElementRun(board.bid, element, item, value, s) IN
         /\ drv' = DriveAll(drv, r.calls)
         /\ lastOp' = Op("set_buffer_element", <<element, item, value>>, <<>>, r, <<>>)
    /\ UNCHANGED <<board, buf, caller, nclose, nbclose>>

\* Board.set_buffer_element_address
SetBufferElementAddress ==
    /\ board.phase = "live"
    /\ \E element \in Elements, address \in ElemValues, s \in Statuses :
         LET r == SetBufferElementRun(board.bid, element, IMG_BUFF_ADDRESS, address, s) IN
         /\ drv' = DriveAll(drv, r.calls)
         /\ lastOp' = Op("set_buffer_element_address", <<element, address>>, <<>>, r, <<>>)
    /\ UNCHANGED <<board, buf, caller, nclose, nbclose>>

\* Board.set_buffer_element_size
SetBufferElementSize ==
    /\ board.phase = "live"
    /\ \E element \in Elements, size_bytes \in ElemValues, s \in Statuses :
         LET r == SetBufferElementRun(board.bid, element, IMG_BUFF_SIZE, size_bytes, s) IN
         /\ drv' = DriveAll(drv, r.calls)
         /\ lastOp' = Op("set_buffer_element_size", <<element, size_bytes>>, <<>>, r, <<>>)
    /\ UNCHANGED <<board, buf, caller, nclose, nbclose>>

SetBufferElementCommandOf(cmds) ==
    /\ board.phase = "live"
    /\ \E element \in Elements, command \in cmds, s \in Statuses :
         LET r == SetBufferElementCommandRun(board.bid, element, command, s) IN
         /\ drv' = DriveAll(drv, r.calls)
         /\ lastOp' = Op("set_buffer_element_command", <<element>>, command, r, <<>>)
    /\ UNCHANGED <<board, buf, caller, nclose, nbclose>>

\* board.set_buffer_element_command(element, command), a few commands.
SetBufferElementCommand == SetBufferElementCommandOf(SomeCommands)

\* board.set_buffer_element_command(element, command), every command string.
SetBufferElementCommandAny == SetBufferElementCommandOf(Commands)

SessionConfigure ==
    /\ board.phase = "live"
    /\ \E s \in Statuses :
         LET r == SessionConfigureRun(board.sid, board.bid, s) IN
         /\ drv' = DriveAll(drv, r.calls)
         /\ lastOp' = Op("session_configure", <<>>, <<>>, r, <<>>)
    /\ UNCHANGED <<board, buf, caller, nclose, nbclose>>

SessionAcquire ==
    /\ board.phase = "live"
    /\ \E async_flag \in {0, 1}, s \in Statuses :
         LET r == SessionAcquireRun(board.sid, async_flag, s) IN
         /\ drv' = DriveAll(drv, r.calls)
         /\ lastOp' = Op("session_acquire", <<async_flag>>, <<>>, r, <<>>)
    /\ UNCHANGED <<board, buf, caller, nclose, nbclose>>

\* The caller keeps the handle create_buf_list returned in the Board's _bid
\* field (board._bid = board.create_buf_list(n)).
CallerStoreBid ==
    /\ board.phase = "live"
    /\ caller.bid # None
    /\ board.bid # caller.bid
    /\ board' = [board EXCEPT !.bid = caller.bid]
    /\ lastOp' = NoOp
    /\ UNCHANGED <<buf, drv, caller, nclose, nbclose>>

--------------------------------------------------------------------------
(* class Board: serial port *)

\* Board.session_serial_flush
SessionSerialFlushRun(sidv, s) == Run(Invoke("imgSessionSerialFlush", <<sidv>>, <<>>, s))

\* Faulty variant of SessionSerialWriteRun: the result of the flush is not looked at.
SessionSerialWriteRunIgnoresFlush(sidv, ascii, s1, s2) ==
    IF ~ascii
    THEN [calls |-> <<>>, result |-> "UnicodeEncodeError"]
    ELSE LET f == Invoke("imgSessionSerialFlush", <<sidv>>, <<>>, s1)
             w == Invoke("imgSessionSerialWrite", <<sidv>>, <<>>, s2) IN
         [calls |-> f.calls \o w.calls, result |-> w.err]

\* Board.session_serial_write: encode, flush, write.
SessionSerialWriteRun(sidv, ascii, s1, s2) ==
    IF ~ascii
    THEN [calls |-> <<>>, result |-> "UnicodeEncodeError"]
    ELSE LET f == SessionSerialFlushRun(sidv, s1) IN
         IF f.result # "ok"
         THEN f
         ELSE LET w == Invoke("imgSessionSerialWrite", <<sidv>>, <<>>, s2) IN
              [calls |-> f.calls \o w.calls, result |-> w.err]

\* Board.session_serial_read: call, then decode what the driver stored.
SessionSerialReadRun(sidv, ascii, s) ==
    LET r == Invoke("imgSessionSerialRead", <<sidv>>, <<>>, s) IN
    IF r.err # "ok" THEN Run(r)
    ELSE [calls |-> r.calls, result |-> IF ascii THEN "ok" ELSE "UnicodeDecodeError"]

\* Board.session_serial_read_bytes
SessionSerialReadBytesRun(sidv, ascii, s) ==
    LET r == Invoke("imgSessionSerialReadBytes", <<sidv>>, <<>>, s) IN
    IF r.err # "ok" THEN Run(r)
    ELSE [calls |-> r.calls, result |-> IF ascii THEN "ok" ELSE "UnicodeDecodeError"]

SessionSerialFlush ==
    /\ board.phase = "live"
    /\ \E s \in Statuses :
         LET r == SessionSerialFlushRun(board.sid, s) IN
         /\ drv' = DriveAll(drv, r.calls)
         /\ lastOp' = Op("session_serial_flush", <<>>, <<>>, r, <<>>)
    /\ UNCHANGED <<board, buf, caller, nclose, nbclose>>

SessionSerialWrite ==
    /\ board.phase = "live"
    /\ \E ascii \in BOOLEAN, s1, s2 \in Statuses :
         LET r == SessionSerialWriteRun(board.sid, ascii, s1, s2) IN
         /\ drv' = DriveAll(drv, r.calls)
         /\ lastOp' = Op("session_serial_write", <<>>, <<>>, r, <<>>)
    /\ UNCHANGED <<board, buf, caller, nclose, nbclose>>

SessionSerialRead ==
    /\ board.phase = "live"
    /\ \E ascii \in BOOLEAN, s \in Statuses :
         LET r == SessionSerialReadRun(board.sid, ascii, s) IN
         /\ drv' = DriveAll(drv, r.calls)
         /\ lastOp' = Op("session_serial_read", <<>>, <<>>, r, <<>>)
    /\ UNCHANGED <<board, buf, caller, nclose, nbclose>>

SessionSerialReadBytes ==
    /\ board.phase = "live"
    /\ \E ascii \in BOOLEAN, s \in Statuses :
         LET r == SessionSerialReadBytesRun(board.sid, ascii, s) IN
         /\ drv' = DriveAll(drv, r.calls)
         /\ lastOp' = Op("session_serial_read_bytes", <<>>, <<>>, r, <<>>)
    /\ UNCHANGED <<board, buf, caller, nclose, nbclose>>

--------------------------------------------------------------------------
(* class Buffer *)

Dims == 1..MaxDim

BppValues == 0..MaxBpp

\* The if/elif chain of Buffer.__init__ choosing dtype; "unbound" when no
\* branch assigns it.
DType(bytes_per_pixel) ==
    CASE bytes_per_pixel = 1 -> "uint8"
      [] bytes_per_pixel = 2 -> "uint16"
      [] bytes_per_pixel = 3 \/ bytes_per_pixel = 4 -> "uint8"
      [] OTHER -> "unbound"

\* Faulty variant of ViewShape: the channel axis is not added for 3 or 4 bytes per pixel.
ViewShapeFlat(shape, bytes_per_pixel) == shape

\* The shape the view is given.
ViewShape(shape, bytes_per_pixel) ==
    IF bytes_per_pixel = 3 \/ bytes_per_pixel = 4
    THEN <<shape[1], shape[2], bytes_per_pixel>>
    ELSE shape

ItemSize(dtype) == IF dtype = "uint16" THEN 2 ELSE 1

RECURSIVE Prod(_)
Prod(t) == IF t = <<>> THEN 1 ELSE Head(t) * Prod(Tail(t))

\* Buffer.__init__: allocate through the driver, then view the region as an
\* array (np.frombuffer needs a whole number of items, the shape assignment
\* needs the item count to match).
BufferInitRun(sidv, shape, bytes_per_pixel, s) ==
    LET size_bytes == Prod(shape) * bytes_per_pixel
        c == Invoke("imgCreateBuffer", <<sidv>>, <<IMG_HOST_FRAME, size_bytes>>, s)
        dtype == DType(bytes_per_pixel)
        vshape == ViewShape(shape, bytes_per_pixel)
        fail(ptr, e) == [ptr |-> ptr, size |-> size_bytes, dtype |-> "none", shape |-> <<>>,
                         calls |-> c.calls, result |-> e]
    IN  IF c.err # "ok" THEN fail(NullPtr, c.err)
        ELSE IF dtype = "unbound" THEN fail(BufAddr, "UnboundLocalError")
        ELSE IF size_bytes % ItemSize(dtype) # 0 THEN fail(BufAddr, "ValueError")
        ELSE IF Prod(vshape) # size_bytes \div ItemSize(dtype) THEN fail(BufAddr, "ValueError")
        ELSE [ptr |-> BufAddr, size |-> size_bytes, dtype |-> dtype, shape |-> vshape,
              calls |-> c.calls, result |-> "ok"]

\* Buffer.__del__: dispose whatever _ptr holds.
DisposeRun(ptr, s) == Run(Invoke("imgDisposeBuffer", <<>>, <<ptr>>, s))

\* buffer = Buffer(board, shape, bytes_per_pixel)
BufferInit ==
    /\ board.phase = "live"
    /\ buf.phase = "none"
    /\ \E rows \in Dims, cols \in Dims, bpp \in BppValues, s \in Statuses :
         LET r == BufferInitRun(board.sid, <<rows, cols>>, bpp, s) IN
         /\ buf' = [phase |-> IF r.result = "ok" THEN "live" ELSE "failed",
                    sid |-> board.sid, ptr |-> r.ptr, size |-> r.size,
                    dtype |-> r.dtype, shape |-> r.shape]
         /\ drv' = DriveAll(drv, r.calls)
         /\ lastOp' = Op("Buffer", <<rows, cols, bpp>>, <<>>, r, <<>>)
    /\ UNCHANGED <<board, caller, nclose, nbclose>>

\* buffer.close(): calls __del__ directly.
BufferClose ==
    /\ buf.phase = "live"
    /\ nbclose < MaxCloses
    /\ \E s \in Statuses :
         LET r == DisposeRun(buf.ptr, s) IN
         /\ drv' = DriveAll(drv, r.calls)
         /\ lastOp' = Op("Buffer.close", <<>>, <<>>, r, <<>>)
    /\ nbclose' = nbclose + 1
    /\ UNCHANGED <<board, buf, caller, nclose>>

\* Buffer.__del__ run by the runtime once the object is unreachable.
BufferDel ==
    /\ buf.phase \in {"live", "failed"}
    /\ \E s \in Statuses :
         LET r == DisposeRun(buf.ptr, s) IN
         /\ drv' = DriveAll(drv, r.calls)
         /\ lastOp' = Op("Buffer.__del__", <<>>, <<>>, r, <<>>)
    /\ buf' = [buf EXCEPT !.phase = "dead"]
    /\ UNCHANGED <<board, caller, nclose, nbclose>>

--------------------------------------------------------------------------
(* Specifications *)

\* The operations of class Board.
Next ==
    \/ BoardInit
    \/ BoardClose
    \/ BoardDel
    \/ GetAttribute
    \/ SetAttribute
    \/ CreateBufList
    \/ GetBufferElement
    \/ SetBufferElement
    \/ SetBufferElementAddress
    \/ SetBufferElementSize
    \/ SetBufferElementCommand
    \/ SessionConfigure
    \/ SessionAcquire
    \/ SessionSerialFlush
    \/ SessionSerialWrite
    \/ SessionSerialRead
    \/ SessionSerialReadBytes

Spec == Init /\ [][Next]_vars


\* class Buffer together with the Board operations that own its session.
NextBuffer ==
    \/ BoardInit
    \/ BoardClose
    \/ BoardDel
    \/ BufferInit
    \/ BufferClose
    \/ BufferDel

SpecBuffer == Init /\ [][NextBuffer]_vars

\* The buffer-list workflow of a caller that stores the list handle in the
\* Board: create, populate, configure, close.
NextList ==
    \/ BoardInit
    \/ BoardClose
    \/ BoardDel
    \/ CreateBufList
    \/ CallerStoreBid
    \/ SetBufferElement
    \/ SetBufferElementAddress
    \/ SetBufferElementSize
    \/ SessionConfigure

SpecList == Init /\ [][NextList]_vars

\* Buffer commands: every command string against a Board with or without a
\* stored list handle.
NextCommand ==
    \/ BoardInit
    \/ CreateBufList
    \/ CallerStoreBid
    \/ SetBufferElementCommandAny

SpecCommand == Init /\ [][NextCommand]_vars

--------------------------------------------------------------------------
(* Claims *)

\* Number of close() invocations made so far on the Board, the one the
\* runtime makes in __del__ included.
Invocations == nclose + (IF board.phase = "dead" THEN 1 ELSE 0)

\* The Board was opened: the driver has handed out a session handle.
Opened == drv.sid # None

\* C1: when Board construction fails at session open after interface open
\* succeeded, the interface handle has been closed by the time the error
\* is with the caller.
C1_InterfaceClosedBeforeErrorPropagates ==
    (lastOp.op = "Board" /\ lastOp.result # "ok" /\ drv.ifid # None)
        => drv.ifid \notin drv.open

\* C2 as stated: after a Board was opened, the second and every later
\* close() invocation makes no driver close call and raises nothing, and
\* each handle is passed to the driver close at most once.
C2_SecondCloseIsNoOp ==
    /\ \A h \in Handles : drv.closeCalls[h] <= 1
    /\ (Opened /\ lastOp.op \in {"close", "__del__"} /\ Invocations >= 2)
          => (lastOp.calls = <<>> /\ lastOp.result = "ok")

\* A step that is one close() invocation (explicit, or made by __del__).
CloseStep == nclose' # nclose \/ (board.phase # "dead" /\ board'.phase = "dead")

\* C2 as amended: once the driver has closed both handles with status zero
\* (so after any close() that returned normally), a close() invocation
\* makes no driver call and raises nothing; and a handle the driver has
\* closed with status zero is never passed to the driver close again.
C2_CloseAfterCompletedCloseIsNoOp ==
    [][ /\ (CloseStep /\ Opened /\ board.sid = None /\ board.ifid = None)
            => (lastOp'.calls = <<>> /\ lastOp'.result = "ok")
        /\ \A h \in Handles :
              drv.okCloses[h] >= 1 => drv'.closeCalls[h] = drv.closeCalls[h]
      ]_vars

\* C2 witness: a second close() after one that closed both handles.
C2_Witness ==
    /\ nclose = 2
    /\ lastOp.op = "close"
    /\ lastOp.calls = <<>>
    /\ \A h \in Handles : drv.okCloses[h] = 1 /\ drv.closeCalls[h] = 1

\* C3: within a close() the session handle is closed before the interface
\* handle, and the interface is never closed in the driver while the
\* session bound to it is still open.
C3_SessionClosedBeforeInterface ==
    /\ drv.sid \in drv.open => drv.ifid \in drv.open
    /\ lastOp.op \in {"close", "__del__"} =>
          \A i, j \in 1..Len(lastOp.calls) :
              (lastOp.calls[i].args[1] = drv.sid /\ lastOp.calls[j].args[1] = drv.ifid)
                  => i < j

\* C3 witness: a close() that issued both driver close calls.
C3_Witness ==
    /\ lastOp.op = "close"
    /\ Len(lastOp.calls) = 2
    /\ lastOp.calls[1].args[1] = SessHandle
    /\ lastOp.calls[2].args[1] = IfHandle
    /\ drv.open = {}

\* C4: no operation returns normally after a driver call that returned a
\* non-zero status.
C4_NonZeroStatusRaises ==
    lastOp.op # "none" =>
        \A i \in 1..Len(lastOp.calls) :
            lastOp.calls[i].st # 0 => lastOp.result # "ok"

\* Every element of the driver's buffer list has address and size set.
FullyPopulated ==
    /\ drv.list # NoList
    /\ \A i \in DOMAIN drv.list : drv.list[i].addr # 0 /\ drv.list[i].size # 0

\* C5: session_configure fails unless a buffer list exists and every
\* element of it has address and size set.
C5_ConfigureNeedsPopulatedList ==
    lastOp.op = "session_configure" => (lastOp.result = "ok" => FullyPopulated)

\* The code the claim gives each command word, None for any other string.
ExpectedCommand(c) ==
    CASE c \in Spellings(<<"n", "e", "x", "t">>) -> 1
      [] c \in Spellings(<<"l", "o", "o", "p">>) -> 2
      [] c \in Spellings(<<"p", "a", "s", "s">>) -> 4
      [] c \in Spellings(<<"s", "t", "o", "p">>) -> 8
      [] OTHER -> None

\* C6: set_buffer_element_command rejects a command (TypeError, before any
\* driver call) exactly when it is no spelling of next, loop, pass or stop,
\* and passes the word's own code 1, 2, 4, 8 to the driver otherwise.
C6_CommandParsing ==
    lastOp.op = "set_buffer_element_command" =>
        /\ (lastOp.result = "TypeError") <=> (ExpectedCommand(lastOp.cmd) = None)
        /\ lastOp.result = "TypeError" => lastOp.calls = <<>>
        /\ \A i \in 1..Len(lastOp.calls) :
              /\ lastOp.calls[i].fn = "imgSetBufferElement"
              /\ lastOp.calls[i].args[3] = IMG_BUFF_COMMAND
              /\ lastOp.calls[i].args[4] = ExpectedCommand(lastOp.cmd)

\* C6 witness: a mixed-case "next" reached the driver as code 1.
C6_Witness ==
    /\ lastOp.op = "set_buffer_element_command"
    /\ lastOp.cmd = <<"N", "e", "X", "t">>
    /\ Len(lastOp.calls) = 1
    /\ lastOp.calls[1].args[4] = 1
    /\ lastOp.result = "ok"

\* C7: the driver dispose call is made at most once for a Buffer's region.
C7_DisposedAtMostOnce == drv.disposeCalls <= 1

\* C8: a Buffer of shape (rows, cols) is viewed as uint8 (rows, cols) for 1
\* byte per pixel, uint16 (rows, cols) for 2, uint8 (rows, cols, bpp) for 3
\* or 4 (whenever the driver allocated the region), and construction fails
\* for every other bytes-per-pixel value.
C8_ViewByBytesPerPixel ==
    lastOp.op = "Buffer" =>
        LET rows == lastOp.args[1]
            cols == lastOp.args[2]
            bpp == lastOp.args[3]
            allocated == Len(lastOp.calls) = 1 /\ lastOp.calls[1].st = 0
            done == lastOp.result = "ok" /\ buf.phase = "live"
        IN  /\ bpp \notin {1, 2, 3, 4} => (lastOp.result # "ok" /\ buf.phase = "failed")
            /\ (bpp \in {1, 2, 3, 4} /\ allocated) => done
            /\ lastOp.result = "ok" => done
            /\ (done /\ bpp = 1) => (buf.dtype = "uint8" /\ buf.shape = <<rows, cols>>)
            /\ (done /\ bpp = 2) => (buf.dtype = "uint16" /\ buf.shape = <<rows, cols>>)
            /\ (done /\ bpp \in {3, 4}) => (buf.dtype = "uint8" /\ buf.shape = <<rows, cols, bpp>>)

\* C8 witness: a 3-byte-per-pixel Buffer with its channel axis.
C8_Witness ==
    /\ lastOp.op = "Buffer"
    /\ lastOp.args = <<2, 1, 3>>
    /\ buf.phase = "live"
    /\ buf.shape = <<2, 1, 3>>
    /\ buf.dtype = "uint8"

\* C9: in a session_serial_write the driver write is issued only right
\* after a driver flush of the same call that returned status zero, and a
\* write that returns normally has made both calls.
C9_FlushBeforeWrite ==
    lastOp.op = "session_serial_write" =>
        /\ \A i \in 1..Len(lastOp.calls) :
              lastOp.calls[i].fn = "imgSessionSerialWrite" =>
                  /\ i > 1
                  /\ lastOp.calls[i - 1].fn = "imgSessionSerialFlush"
                  /\ lastOp.calls[i - 1].st = 0
        /\ lastOp.result = "ok" => Len(lastOp.calls) = 2

\* C9 witness: a write made after its flush.
C9_Witness ==
    /\ lastOp.op = "session_serial_write"
    /\ Len(lastOp.calls) = 2
    /\ lastOp.calls[1].fn = "imgSessionSerialFlush"
    /\ lastOp.calls[2].fn = "imgSessionSerialWrite"
    /\ lastOp.result = "ok"

\* C10: set_attribute on a device-information attribute fails and leaves
\* the attribute's value as it was.
C10_DeviceInformationReadOnly ==
    (lastOp.op = "set_attribute" /\ lastOp.args[1] \in DeviceInformation) =>
        /\ lastOp.result # "ok"
        /\ drv.attrs[lastOp.args[1]] = lastOp.args[3]

\* C11: once create_buf_list has succeeded, every get_buffer_element and
\* set_buffer_element (and its convenience forms) reaches the driver with
\* the handle create_buf_list returned, and so does every session_configure
\* on an open session, without the caller storing the handle in the Board.
C11_BoardOwnsBufferList ==
    caller.bid # None =>
        /\ lastOp.op \in {"get_buffer_element", "set_buffer_element",
                          "set_buffer_element_address", "set_buffer_element_size"}
              => (Len(lastOp.calls) = 1 /\ lastOp.calls[1].args[1] = caller.bid)
        /\ (lastOp.op = "session_configure" /\ board.sid # None)
              => (Len(lastOp.calls) = 1 /\ lastOp.calls[1].args[2] = caller.bid)

\* C12: the driver never closes the session while a Buffer allocated on it
\* has had no dispose call, and no Buffer region is disposed after the
\* driver closed the session.
C12_BufferDisposedBeforeSessionClosed ==
    /\ (buf.ptr = BufAddr /\ drv.disposeCalls = 0) => drv.okCloses[SessHandle] = 0
    /\ lastOp.op \in {"Buffer.close", "Buffer.__del__"} =>
          \A i \in 1..Len(lastOp.calls) :
              lastOp.calls[i].args[1] = BufAddr => SessHandle \in drv.open

\* close() has closed both handles of an opened Board that is still in use.
ClosedBoard ==
    /\ Opened
    /\ board.phase = "live"
    /\ board.sid = None
    /\ board.ifid = None

\* The operations of a Board that take the session or the list handle.
HandleOps ==
    { "get_attribute", "set_attribute", "get_buffer_element", "set_buffer_element",
      "set_buffer_element_address", "set_buffer_element_size",
      "set_buffer_element_command", "session_configure", "session_acquire",
      "session_serial_flush", "session_serial_write", "session_serial_read",
      "session_serial_read_bytes" }

\* C13: once close() has closed both handles, an operation on the Board
\* makes no driver call (it fails before the driver is reached), so no
\* closed handle value is passed to the driver.
C13_NoDriverCallAfterClose ==
    (ClosedBoard /\ lastOp.op \in HandleOps) =>
        /\ lastOp.calls = <<>>
        /\ \A i \in 1..Len(lastOp.calls) :
              lastOp.calls[i].args[1] \notin {SessHandle, IfHandle}

\* C14: a close() whose driver close of the session handle fails raises
\* after that one call, without a driver close of the interface handle, and
\* leaves both handle fields as they were; a close() that starts with the
\* session handle still recorded after such a failure calls the driver
\* close of the session first, and closes the interface only after that
\* call returned status zero.
C14_FailedSessionCloseIsRetried ==
    [][ CloseStep =>
          /\ (/\ lastOp'.calls # <<>>
              /\ lastOp'.calls[1].args[1] = SessHandle
              /\ lastOp'.calls[1].st # 0)
                => /\ Len(lastOp'.calls) = 1
                   /\ lastOp'.result = "Exception"
                   /\ board.sid = SessHandle
                   /\ board'.sid = board.sid
                   /\ board'.ifid = board.ifid
          /\ (board.sid = SessHandle /\ drv.closeCalls[SessHandle] > 0)
                => /\ lastOp'.calls # <<>>
                   /\ lastOp'.calls[1].args[1] = SessHandle
                   /\ \A j \in 1..Len(lastOp'.calls) :
                         lastOp'.calls[j].args[1] = IfHandle
                             => (j = 2 /\ lastOp'.calls[1].st = 0)
      ]_vars

\* C14 witness: a close() that failed on the session was followed by one
\* that closed the session and then the interface.
C14_Witness ==
    /\ lastOp.op \in {"close", "__del__"}
    /\ drv.closeCalls[SessHandle] = 2
    /\ drv.okCloses[SessHandle] = 1
    /\ drv.closeCalls[IfHandle] = 1
    /\ Len(lastOp.calls) = 2
    /\ lastOp.calls[1].args[1] = SessHandle
    /\ lastOp.calls[2].args[1] = IfHandle
    /\ drv.open = {}

====
